---- MODULE Spec2Model ----
(***************************************************************************)
(* Road Hawk: the folder-watching auto-updater (auto_update.py, both       *)
(* variants) and the CSV trip/expense logger (trucking_log.py).            *)
(*                                                                         *)
(* Text is a sequence of one-character strings; the line terminators are   *)
(* written "LF", "CR" and "FF".  A file is a record [exists, data].        *)
(* Numbers read from the console are exact rationals kept as an integer    *)
(* count of thousandths.                                                   *)
(***************************************************************************)
EXTENDS Integers, Sequences, FiniteSets, TLC

VARIABLES
  \* ---- update watcher (auto_update.py) ----
  variant,    \* "A" (lines 1-149) or "B" (lines 150-262)
  target,     \* Road_Hawk.py
  inbox,      \* the watched folder: set of [name, id, data]
  backups,    \* backup files written by the watcher: set of [ts, data]
  archived,   \* documents moved to the archive folder: set of [name, data]
  clock,      \* wall clock, in ticks
  sleeps,     \* number of time.sleep(5) calls so far
  phase,      \* position in the polling loop: "sleep", "list", "scan", "crashed"
  pending,    \* entries of the os.listdir snapshot not yet visited
  nextId,     \* history: number of external drops so far + 1
  processed,  \* history: how often each drop was processed
  writes,     \* history: how often the target was written or replaced
  last,       \* history: what the last loop-body step did
  \* ---- trip/expense logger (trucking_log.py) ----
  pc,         \* "menu", the operation chosen, "exited" or "fatal"
  trips,      \* trips.csv: [exists, rows, open]
  expenses,   \* expenses.csv: [exists, rows, open]
  summary,    \* exports/summary.csv: [exists, rows]
  receipts,   \* the receipts folder: set of [name, data]
  nOps,       \* number of menu choices read so far
  init0,      \* history: the two CSV files as the logger found them
  lastOp      \* history: the last operation, its inputs and its outcome

wvars == <<variant, target, inbox, backups, archived, clock, sleeps, phase,
           pending, nextId, processed, writes, last>>

lvars == <<pc, trips, expenses, summary, receipts, nOps, init0, lastOp>>

vars == <<wvars, lvars>>

(***************************************************************************)
(* Bounds                                                                  *)
(***************************************************************************)
MaxDrops == 2
MaxSleeps == 2
TicksPerSecond == 2
MaxOps == 2

(***************************************************************************)
(* Sequence helpers                                                        *)
(***************************************************************************)
Last(s) == s[Len(s)]

Front(s) == SubSeq(s, 1, Len(s) - 1)

(***************************************************************************)
(* Files and text                                                          *)
(***************************************************************************)
NoFile == [exists |-> FALSE, data |-> <<>>]

File(d) == [exists |-> TRUE, data |-> d]

\* open(path, "r").read(): universal newlines, "\r\n" and "\r" become "\n"
RECURSIVE ReadText(_)
ReadText(s) ==
  IF s = <<>> THEN <<>>
  ELSE IF Head(s) = "CR"
       THEN <<"LF">> \o ReadText(IF Len(s) >= 2 /\ s[2] = "LF"
                                 THEN SubSeq(s, 3, Len(s)) ELSE Tail(s))
       ELSE <<Head(s)>> \o ReadText(Tail(s))

\* the line boundaries str.splitlines recognises among the characters used
LineBreaks == {"LF", "CR", "FF"}

\* split after every separator, keeping it; cur is the line being collected
RECURSIVE SplitKeepEnds(_, _, _)
SplitKeepEnds(s, seps, cur) ==
  IF s = <<>> THEN (IF cur = <<>> THEN <<>> ELSE <<cur>>)
  ELSE IF Head(s) = "CR" /\ "CR" \in seps /\ Len(s) >= 2 /\ s[2] = "LF"
       THEN <<cur \o <<"CR", "LF">> >> \o SplitKeepEnds(SubSeq(s, 3, Len(s)), seps, <<>>)
  ELSE IF Head(s) \in seps
       THEN <<cur \o <<Head(s)>> >> \o SplitKeepEnds(Tail(s), seps, <<>>)
       ELSE SplitKeepEnds(Tail(s), seps, cur \o <<Head(s)>>)

\* file.readlines() of a file opened in text mode
readlines(bytes) == SplitKeepEnds(ReadText(bytes), {"LF"}, <<>>)

\* str.splitlines(keepends=True)
splitlines(text) == SplitKeepEnds(text, LineBreaks, <<>>)

\* list(difflib.unified_diff(a, b)) is non-empty exactly when a # b
unified_diff_nonempty(a, b) == a # b

\* file names are sequences of their dot-separated components
Name_x_update_py == <<"x", "update", "py">>
Name_z_update_py == <<"z", "update", "py">>
Name_y_py == <<"y", "py">>
Name_n_txt == <<"n", "txt">>
Name_d_docx == <<"d", "docx">>

Name_k_bak == <<"k", "bak">>

\* the names an operator drops into the folder each variant watches
NamesA == {Name_x_update_py, Name_z_update_py, Name_y_py}
NamesB == {Name_x_update_py, Name_y_py, Name_n_txt, Name_d_docx, Name_k_bak}
Names == NamesA \cup NamesB

\* str.endswith("." + suffix components)
EndsWith(name, suffix) ==
  /\ Len(name) > Len(suffix)
  /\ SubSeq(name, Len(name) - Len(suffix) + 1, Len(name)) = suffix

\* the contents an operator may drop, and the target may hold at start
Contents ==
  { <<>>,
    <<"a", "LF">>,
    <<"a", "CR", "LF">>,
    <<"a", "FF", "b">> }

\* what a dropped file may hold: scripts vary, other files are not read
DropContents(name) ==
  IF EndsWith(name, <<"py">>) THEN Contents ELSE {<<"a", "LF">>, <<"a", "FF", "b">>}

\* time.strftime("%Y%m%d-%H%M%S"): the clock at second resolution
Timestamp(t) == t \div TicksPerSecond

SleepSeconds == 5

(***************************************************************************)
(* Folder operations                                                       *)
(***************************************************************************)
Lookup(folder, name) == {f \in folder : f.name = name}

\* os.remove(path) / the source side of shutil.move
RemoveFileNoop(folder, name) == folder
RemoveFile(folder, name) == {f \in folder : f.name # name}

\* shutil.copy(MAIN, <folder>/<prefix>_<ts>.bak): creates or overwrites
CopyToBackupSkipped(bk, ts, data) == bk
CopyToBackup(bk, ts, data) ==
  {b \in bk : b.ts # ts} \cup {[ts |-> ts, data |-> data]}

\* shutil.move(path, <archive>/<basename>): creates or overwrites
MoveToArchive(ar, name, data) ==
  {d \in ar : d.name # name} \cup {[name |-> name, data |-> data]}

(***************************************************************************)
(* Variant A                                                               *)
(***************************************************************************)
\* backup_current_version(): the result is the backup folder, or a raised
\* FileNotFoundError when Road_Hawk.py does not exist
backup_current_version(main, bk, now) ==
  IF main.exists
  THEN [raised |-> FALSE, backups |-> CopyToBackup(bk, Timestamp(now), main.data)]
  ELSE [raised |-> TRUE, backups |-> bk]

\* detect_changes(new_code): True, the diff, or None
detect_changes_emptyIsNone(main, new_code) ==
  IF ~main.exists THEN "True"
  ELSE IF new_code # <<>> /\ unified_diff_nonempty(readlines(main.data), splitlines(new_code))
       THEN "diff" ELSE "None"
detect_changes(main, new_code) ==
  IF ~main.exists THEN "True"
  ELSE IF unified_diff_nonempty(readlines(main.data), splitlines(new_code))
       THEN "diff" ELSE "None"

\* update_code(new_code)
update_code(new_code, main, bk, now) ==
  LET changes == detect_changes(main, new_code) IN
  IF changes # "None"
  THEN LET b == backup_current_version(main, bk, now) IN
       IF b.raised
       THEN [raised |-> TRUE, main |-> main, backups |-> bk, wrote |-> FALSE]
       ELSE [raised |-> FALSE, main |-> File(new_code), backups |-> b.backups,
             wrote |-> TRUE]
  ELSE [raised |-> FALSE, main |-> main, backups |-> bk, wrote |-> FALSE]

\* the logger before it is started
LoggerIdle ==
  /\ pc = "off"
  /\ trips = [exists |-> FALSE, rows |-> <<>>, open |-> FALSE]
  /\ expenses = [exists |-> FALSE, rows |-> <<>>, open |-> FALSE]
  /\ summary = [exists |-> FALSE, rows |-> <<>>]
  /\ receipts = {}
  /\ nOps = 0
  /\ init0 = [trips |-> trips, expenses |-> expenses]
  /\ lastOp = [op |-> "none", choice |-> <<>>, bad |-> {}, out |-> "none", row |-> <<>>]

NoStep == [op |-> "none", name |-> <<>>, id |-> 0, cand |-> <<>>, old |-> NoFile]

Step(op, f, old) == [op |-> op, name |-> f.name, id |-> f.id, cand |-> f.data, old |-> old]

\* time.sleep(5)
Sleep ==
  /\ phase = "sleep"
  /\ sleeps < MaxSleeps
  /\ sleeps' = sleeps + 1
  /\ clock' = clock + SleepSeconds * TicksPerSecond
  /\ phase' = "list"
  /\ last' = NoStep
  /\ UNCHANGED lvars
  /\ UNCHANGED <<variant, target, inbox, backups, archived, pending, nextId,
                 processed, writes>>

\* os.listdir(folder): the snapshot the for loop walks
ListDir ==
  /\ phase = "list"
  /\ pending' = {f.name : f \in inbox}
  /\ phase' = "scan"
  /\ last' = NoStep
  /\ UNCHANGED lvars
  /\ UNCHANGED <<variant, target, inbox, backups, archived, clock, sleeps,
                 nextId, processed, writes>>

\* the for loop is exhausted
EndScan ==
  /\ phase = "scan"
  /\ pending = {}
  /\ phase' = "sleep"
  /\ last' = NoStep
  /\ UNCHANGED lvars
  /\ UNCHANGED <<variant, target, inbox, backups, archived, clock, sleeps,
                 pending, nextId, processed, writes>>

\* Variant A, one iteration of the for loop of monitor_folder (lines 119-141)
\* on a name that does not end with ".update.py"
monitor_folder_A_skip(name) ==
  /\ variant = "A" /\ phase = "scan" /\ name \in pending
  /\ ~EndsWith(name, <<"update", "py">>)
  /\ pending' = pending \ {name}
  /\ last' = NoStep
  /\ UNCHANGED lvars
  /\ UNCHANGED <<variant, target, inbox, backups, archived, clock, sleeps,
                 phase, nextId, processed, writes>>

\* Variant A, one iteration of the for loop of monitor_folder (lines 119-141)
\* on a ".update.py" candidate; dt is the time the iteration takes
monitor_folder_A_update(name, dt) ==
  /\ variant = "A" /\ phase = "scan" /\ name \in pending
  /\ EndsWith(name, <<"update", "py">>)
  /\ \E f \in Lookup(inbox, name) :
       LET new_code == ReadText(f.data)
           r == update_code(new_code, target, backups, clock)
       IN IF r.raised
          THEN \* the FileNotFoundError leaves monitor_folder: the process ends
               /\ phase' = "crashed"
               /\ last' = Step("A_raised", f, target)
               /\ UNCHANGED <<target, inbox, backups, pending, processed, writes>>
          ELSE /\ target' = r.main
               /\ backups' = r.backups
               /\ writes' = IF r.wrote THEN writes + 1 ELSE writes
               /\ inbox' = RemoveFile(inbox, name)
               /\ processed' = [processed EXCEPT ![f.id] = @ + 1]
               /\ pending' = pending \ {name}
               /\ last' = Step(IF r.wrote THEN "A_updated" ELSE "A_nochange", f, target)
               /\ phase' = phase
  /\ clock' = clock + dt
  /\ UNCHANGED lvars
  /\ UNCHANGED <<variant, archived, sleeps, nextId>>

(***************************************************************************)
(* Variant B                                                               *)
(***************************************************************************)
\* apply_python_update(update_path)
apply_python_update(f, main, bk, now) ==
  [main |-> File(f.data),
   backups |-> IF main.exists
               THEN CopyToBackup(bk, Timestamp(now), main.data) ELSE bk]

\* archive_file(file_path)
archive_file(f, ar) == MoveToArchive(ar, f.name, f.data)

\* Variant B, one iteration of the for loop of monitor_folder (lines 192-206)
monitor_folder_B_step(name, dt) ==
  /\ variant = "B" /\ phase = "scan" /\ name \in pending
  /\ \E f \in Lookup(inbox, name) :
       IF EndsWith(name, <<"py">>)
       THEN LET r == apply_python_update(f, target, backups, clock) IN
            /\ target' = r.main
            /\ backups' = r.backups
            /\ writes' = writes + 1
            /\ inbox' = RemoveFile(inbox, name)
            /\ processed' = [processed EXCEPT ![f.id] = @ + 1]
            /\ last' = Step("B_updated", f, target)
            /\ UNCHANGED archived
       ELSE IF EndsWith(name, <<"txt">>) \/ EndsWith(name, <<"docx">>)
       THEN /\ archived' = archive_file(f, archived)
            /\ inbox' = RemoveFile(inbox, name)
            /\ processed' = [processed EXCEPT ![f.id] = @ + 1]
            /\ last' = Step("B_archived", f, target)
            /\ UNCHANGED <<target, backups, writes>>
       ELSE /\ last' = NoStep
            /\ UNCHANGED <<target, backups, writes, inbox, processed, archived>>
  /\ pending' = pending \ {name}
  /\ clock' = clock + dt
  /\ UNCHANGED lvars
  /\ UNCHANGED <<variant, sleeps, phase, nextId>>

(***************************************************************************)
(* The operator drops a file into the watched folder                       *)
(***************************************************************************)
Drop(name, data) ==
  /\ nextId <= MaxDrops
  /\ phase # "crashed"
  /\ name \in (IF variant = "A" THEN NamesA ELSE NamesB)
  /\ data \in DropContents(name)
  /\ inbox' = RemoveFile(inbox, name) \cup {[name |-> name, id |-> nextId, data |-> data]}
  /\ nextId' = nextId + 1
  /\ last' = NoStep
  /\ UNCHANGED lvars
  /\ UNCHANGED <<variant, target, backups, archived, clock, sleeps, phase,
                 pending, processed, writes>>

InitW ==
  /\ variant \in {"A", "B"}
  /\ target \in {NoFile} \cup {File(d) : d \in Contents}
  /\ inbox = {}
  /\ backups = {}
  /\ archived = {}
  /\ clock = 0
  /\ sleeps = 0
  /\ phase = IF variant = "A" THEN "sleep" ELSE "list"
  /\ pending = {}
  /\ nextId = 1
  /\ processed = [i \in 1..(MaxDrops + 1) |-> 0]
  /\ writes = 0
  /\ last = NoStep
  /\ LoggerIdle

NextW ==
  \/ Sleep
  \/ ListDir
  \/ EndScan
  \/ \E name \in Names : monitor_folder_A_skip(name)
  \/ \E name \in Names, dt \in {0, 1} : monitor_folder_A_update(name, dt)
  \/ \E name \in Names, dt \in {0, 1} : monitor_folder_B_step(name, dt)
  \/ \E name \in Names, data \in Contents : Drop(name, data)

SpecW == InitW /\ [][NextW]_vars

(***************************************************************************)
(* Trip/expense logger: text, numbers and dates                            *)
(*                                                                         *)
(* A text is a sequence of tokens.  A token is one character, or a word    *)
(* ("Miles", "fuel") whose inner characters no operation looks at.         *)
(* A number is an exact count of thousandths.                              *)
(***************************************************************************)
Digits == {"0", "1", "2", "3", "4", "5", "6", "7", "8", "9"}

DigitVal(c) ==
  CASE c = "0" -> 0 [] c = "1" -> 1 [] c = "2" -> 2 [] c = "3" -> 3
    [] c = "4" -> 4 [] c = "5" -> 5 [] c = "6" -> 6 [] c = "7" -> 7
    [] c = "8" -> 8 [] c = "9" -> 9

DigitChar(d) == CHOOSE c \in Digits : DigitVal(c) = d

IsDigits(s) == \A i \in 1..Len(s) : s[i] \in Digits

\* the value of a digit string read as a decimal numeral
RECURSIVE NumeralVal(_)
NumeralVal(s) ==
  IF s = <<>> THEN 0 ELSE 10 * NumeralVal(Front(s)) + DigitVal(Last(s))

\* str(n) for n >= 0
RECURSIVE IntStr(_)
IntStr(n) ==
  IF n < 10 THEN <<DigitChar(n)>>
  ELSE IntStr(n \div 10) \o <<DigitChar(n % 10)>>

\* n written with at least w digits, as "%0wd" does
RECURSIVE Pad(_, _)
Pad(n, w) == LET t == IntStr(n) IN
  IF Len(t) >= w THEN t ELSE <<"0">> \o Pad(n, w - 1)

\* str.strip()
RECURSIVE Strip(_)
Strip(s) ==
  IF s = <<>> THEN s
  ELSE IF Head(s) = " " THEN Strip(Tail(s))
  ELSE IF Last(s) = " " THEN Strip(Front(s))
  ELSE s

\* str.lower(), on the tokens that occur
LowerToken(c) ==
  CASE c = "Y" -> "y" [] c = "N" -> "n" [] c = "Owner" -> "owner"
    [] c = "Company" -> "company" [] OTHER -> c

Lower(s) == [i \in 1..Len(s) |-> LowerToken(s[i])]

\* input(prompt).strip()
Prompt(typed) == Strip(typed)

\* thousandths per unit
Thousand == 10 * 10 * 10

ParseError == [ok |-> FALSE, val |-> 0]

\* the index of the first "." of s, or 0
DotAt(s) ==
  IF \E i \in 1..Len(s) : s[i] = "."
  THEN CHOOSE i \in 1..Len(s) : s[i] = "." /\ \A j \in 1..(i - 1) : s[j] # "."
  ELSE 0

\* an unsigned decimal numeral: digits, optionally a point and digits, at
\* least one digit in all; fraction digits beyond the third are not read
UnsignedVal(s) ==
  LET d == DotAt(s)
      ip == IF d = 0 THEN s ELSE SubSeq(s, 1, d - 1)
      fp == IF d = 0 THEN <<>> ELSE SubSeq(s, d + 1, Len(s))
      f3 == SubSeq(fp \o <<"0", "0", "0">>, 1, 3)
  IN IF IsDigits(ip) /\ IsDigits(fp) /\ Len(ip) + Len(fp) > 0
     THEN [ok |-> TRUE, val |-> NumeralVal(ip) * Thousand + NumeralVal(f3)]
     ELSE ParseError

\* float(text) restricted to plain decimal numerals (no exponent, inf, nan,
\* underscore: none of the texts used contains one): ok = FALSE is ValueError
ParseFloat(text) ==
  LET s == Strip(text) IN
  IF s = <<>> THEN ParseError
  ELSE IF Head(s) = "-"
       THEN LET u == UnsignedVal(Tail(s)) IN [ok |-> u.ok, val |-> 0 - u.val]
  ELSE IF Head(s) = "+" THEN UnsignedVal(Tail(s))
  ELSE UnsignedVal(s)

Abs(n) == IF n < 0 THEN 0 - n ELSE n

\* h hundredths written "[-]i.ff"
Render2(neg, h) ==
  (IF neg THEN <<"-">> ELSE <<>>) \o IntStr(h \div 100) \o <<".">> \o Pad(h % 100, 2)

\* f"{x:.2f}" for x = num/den: the texts the format can give.  x is rounded
\* to hundredths; when x lies exactly halfway the binary double nearest to x
\* decides, so both neighbours are possible.
Format2f(num, den) ==
  LET g == IF den % 100 = 0 THEN 100 ELSE IF den % 10 = 0 THEN 10 ELSE 1
      a == Abs(num) * (100 \div g)     \* x * 100 = a / d
      d == den \div g
      q == a \div d
      r == a % d
      hs == IF 2 * r < d THEN {q}
            ELSE IF 2 * r > d THEN {q + 1}
            ELSE {q, q + 1}
  IN {Render2(num < 0, h) : h \in hs}

PAY_RATE_PER_MILE == 500

OWNER_OPERATOR_PERCENTAGE == 800

\* calculate_pay(driver_type, miles, revenue): thousandths times thousandths,
\* so the result counts millionths
calculate_pay(driver_type, miles, revenue) ==
  IF driver_type = <<"company">> THEN miles * PAY_RATE_PER_MILE
  ELSE IF driver_type = <<"owner">> THEN revenue * OWNER_OPERATOR_PERCENTAGE
  ELSE 0

(***************************************************************************)
(* datetime.fromisoformat on "YYYY-MM-DD" and "YYYY-MM-DD?HH:MM"           *)
(***************************************************************************)
IsLeap(y) == (y % 4 = 0 /\ y % 100 # 0) \/ y % 400 = 0

DaysInMonth(y, m) ==
  IF m = 2 THEN (IF IsLeap(y) THEN 29 ELSE 28)
  ELSE IF m \in {4, 6, 9, 11} THEN 30 ELSE 31

NoDate == [ok |-> FALSE, y |-> 0, mo |-> 0, d |-> 0, h |-> 0, mi |-> 0]

fromisoformat(text) ==
  LET n == Len(text)
      dateShape == /\ n \in {10, 16}
                   /\ IsDigits(SubSeq(text, 1, 4)) /\ text[5] = "-"
                   /\ IsDigits(SubSeq(text, 6, 7)) /\ text[8] = "-"
                   /\ IsDigits(SubSeq(text, 9, 10))
      timeShape == n = 10 \/ (/\ IsDigits(SubSeq(text, 12, 13)) /\ text[14] = ":"
                              /\ IsDigits(SubSeq(text, 15, 16)))
  IN IF ~(dateShape /\ timeShape) THEN NoDate
     ELSE LET y == NumeralVal(SubSeq(text, 1, 4))
              mo == NumeralVal(SubSeq(text, 6, 7))
              d == NumeralVal(SubSeq(text, 9, 10))
              h == IF n = 10 THEN 0 ELSE NumeralVal(SubSeq(text, 12, 13))
              mi == IF n = 10 THEN 0 ELSE NumeralVal(SubSeq(text, 15, 16))
          IN IF /\ y >= 1 /\ mo \in 1..12 /\ d >= 1 /\ d <= DaysInMonth(y, mo)
                /\ h <= 23 /\ mi <= 59
             THEN [ok |-> TRUE, y |-> y, mo |-> mo, d |-> d, h |-> h, mi |-> mi]
             ELSE NoDate

\* date.toordinal(): days since 0001-01-01 is day 1
RECURSIVE DaysBeforeMonth(_, _)
DaysBeforeMonth(y, m) ==
  IF m = 1 THEN 0 ELSE DaysBeforeMonth(y, m - 1) + DaysInMonth(y, m - 1)

toordinal(dt) ==
  LET y1 == dt.y - 1 IN
  y1 * 365 + y1 \div 4 - y1 \div 100 + y1 \div 400 + DaysBeforeMonth(dt.y, dt.mo) + dt.d

\* minutes of end_dt - start_dt: both carry the same tzinfo object, so the
\* difference is taken on the wall-clock fields
MinutesBetween(start_dt, end_dt) ==
  (toordinal(end_dt) - toordinal(start_dt)) * 1440
    + (end_dt.h - start_dt.h) * 60 + (end_dt.mi - start_dt.mi)

\* date.weekday(): Monday is 0
weekday(dt) == (toordinal(dt) + 6) % 7

\* America/New_York: daylight time from the second Sunday of March, 02:00,
\* to the first Sunday of November, 02:00 (fold = 0 inside the repeated hour)
IsSunday(dt) == weekday(dt) = 6

InDaylightTime(dt) ==
  LET firstSunday == CHOOSE d \in 1..7 : IsSunday([dt EXCEPT !.d = d])
      secondSunday == firstSunday + 7
  IN CASE dt.mo \in 4..10 -> TRUE
       [] dt.mo = 3 -> dt.d > secondSunday \/ (dt.d = secondSunday /\ dt.h >= 2)
       [] dt.mo = 11 -> dt.d < firstSunday \/ (dt.d = firstSunday /\ dt.h < 2)
       [] OTHER -> FALSE

\* date.isoformat()
date_isoformat(dt) ==
  Pad(dt.y, 4) \o <<"-">> \o Pad(dt.mo, 2) \o <<"-">> \o Pad(dt.d, 2)

\* datetime.isoformat() after replace(tzinfo=DEFAULT_TIMEZONE)
datetime_isoformat(dt) ==
  date_isoformat(dt) \o <<"T">> \o Pad(dt.h, 2) \o <<":">> \o Pad(dt.mi, 2)
    \o <<":", "0", "0">>
    \o (IF InDaylightTime(dt) THEN <<"-", "0", "4", ":", "0", "0">>
        ELSE <<"-", "0", "5", ":", "0", "0">>)

(***************************************************************************)
(* CSV files: rows of fields.  open says the last row has no line          *)
(* terminator yet, so text appended to the file continues that row.        *)
(***************************************************************************)
NoCsv == [exists |-> FALSE, rows |-> <<>>, open |-> FALSE]

Csv(rows, open) == [exists |-> TRUE, rows |-> rows, open |-> open]

TripsHeader ==
  << <<"TripID">>, <<"DriverName">>, <<"DriverType">>, <<"StartTime">>,
     <<"EndTime">>, <<"DurationHours">>, <<"Miles">>, <<"Pay">>,
     <<"ExpenseAmount">>, <<"ExpenseDescription">> >>

ExpensesHeader == << <<"Date">>, <<"DriverName">>, <<"Amount">>, <<"Description">> >>

\* csv.writer(f).writerow(row) on a file opened for append: the row's text
\* follows whatever the file ends with, and is terminated
writerow(file, row) ==
  IF file.open /\ file.rows # <<>>
  THEN LET lastRow == Last(file.rows) IN
       Csv(Front(file.rows)
             \o << Front(lastRow) \o << Last(lastRow) \o Head(row) >> \o Tail(row) >>,
           FALSE)
  ELSE Csv(Append(file.rows, row), FALSE)

\* write_to_csv(filename, header, data_row); writable = FALSE is open()
\* raising, which the function catches and reports
write_to_csv_headerAlways(file, header, data_row, writable) ==
  IF ~writable THEN file
  ELSE writerow(writerow(IF file.exists THEN file ELSE Csv(<<>>, FALSE), header), data_row)
write_to_csv(file, header, data_row, writable) ==
  IF ~writable THEN file
  ELSE LET file_exists == file.exists
           f == IF file_exists THEN file ELSE Csv(<<>>, FALSE)
       IN IF ~file_exists THEN writerow(writerow(f, header), data_row)
          ELSE writerow(f, data_row)

\* log_expense_record(driver_name, amount, description, date); amount2f is
\* the text f"{amount:.2f}" gave
log_expense_record(file, driver_name, amount2f, description, date, writable) ==
  write_to_csv(file, ExpensesHeader,
               <<date_isoformat(date), driver_name, amount2f, description>>, writable)

Max(S) == CHOOSE x \in S : \A y \in S : y <= x

\* float(row.get(key, 0) or 0) for a row of csv.DictReader
FloatOfColumn(fieldnames, row, key) ==
  LET idx == {i \in 1..Len(fieldnames) : fieldnames[i] = key} IN
  IF idx = {} THEN [ok |-> TRUE, val |-> 0]            \* key absent: default 0
  ELSE LET i == Max(idx) IN
       IF i > Len(row) THEN [ok |-> TRUE, val |-> 0]   \* restval None: None or 0
       ELSE IF row[i] = <<>> THEN [ok |-> TRUE, val |-> 0]    \* "" or 0
       ELSE ParseFloat(row[i])

\* the rows csv.DictReader yields: the first row gives the field names,
\* blank rows after it are skipped
DictRows(file) == SelectSeq(Tail(file.rows), LAMBDA r : r # <<>>)

\* the loop of export_data over trips.csv (lines 201-206)
RECURSIVE SumTripsBreak(_, _, _)
SumTripsBreak(fieldnames, rows, acc) ==
  IF rows = <<>> THEN acc
  ELSE LET m == FloatOfColumn(fieldnames, Head(rows), <<"Miles">>)
           p == FloatOfColumn(fieldnames, Head(rows), <<"Pay">>)
       IN IF ~m.ok THEN acc
          ELSE IF ~p.ok THEN [acc EXCEPT !.miles = @ + m.val]
          ELSE SumTripsBreak(fieldnames, Tail(rows),
                 [miles |-> acc.miles + m.val, pay |-> acc.pay + p.val])
RECURSIVE SumTrips(_, _, _)
SumTrips(fieldnames, rows, acc) ==
  IF rows = <<>> THEN acc
  ELSE LET m == FloatOfColumn(fieldnames, Head(rows), <<"Miles">>)
           p == FloatOfColumn(fieldnames, Head(rows), <<"Pay">>)
       IN SumTrips(fieldnames, Tail(rows),
            IF ~m.ok THEN acc
            ELSE IF ~p.ok THEN [acc EXCEPT !.miles = @ + m.val]
            ELSE [miles |-> acc.miles + m.val, pay |-> acc.pay + p.val])

\* the loop of export_data over expenses.csv (lines 211-215)
RECURSIVE SumExpenses(_, _, _)
SumExpenses(fieldnames, rows, acc) ==
  IF rows = <<>> THEN acc
  ELSE LET a == FloatOfColumn(fieldnames, Head(rows), <<"Amount">>) IN
       SumExpenses(fieldnames, Tail(rows), IF a.ok THEN acc + a.val ELSE acc)

\* total_miles, total_pay of export_data
TripTotals(file) ==
  IF file.exists /\ file.rows # <<>>
  THEN SumTrips(Head(file.rows), DictRows(file), [miles |-> 0, pay |-> 0])
  ELSE [miles |-> 0, pay |-> 0]

\* total_expenses of export_data
ExpenseTotal(file) ==
  IF file.exists /\ file.rows # <<>>
  THEN SumExpenses(Head(file.rows), DictRows(file), 0)
  ELSE 0

\* the rows export_data writes to exports/summary.csv, one per way the
\* three totals can be formatted
SummaryRows(miles, pay, exp) ==
  { << << <<"Metric">>, <<"Amount">> >>,
       << <<"Total Miles">>, m >>,
       << <<"Total Pay">>, <<"$">> \o p >>,
       << <<"Total Expenses">>, <<"$">> \o e >> >> :
    m \in Format2f(miles, Thousand), p \in Format2f(pay, Thousand),
    e \in Format2f(exp, Thousand) }

export_data(tf, ef) ==
  LET t == TripTotals(tf) IN SummaryRows(t.miles, t.pay, ExpenseTotal(ef))

(***************************************************************************)
(* What the user types                                                     *)
(***************************************************************************)
Time_0105_1000 ==
  <<"2", "0", "2", "3", "-", "0", "1", "-", "0", "5", " ", "1", "0", ":", "0", "0">>

Time_0105_1230 ==
  <<"2", "0", "2", "3", "-", "0", "1", "-", "0", "5", " ", "1", "2", ":", "3", "0">>

Time_month13 ==
  <<"2", "0", "2", "3", "-", "1", "3", "-", "0", "5", " ", "1", "0", ":", "0", "0">>

Date_0312 == <<"2", "0", "2", "3", "-", "0", "3", "-", "1", "2">>

Date_slashes == <<"0", "3", "/", "1", "2", "/", "2", "0", "2", "3">>

TypedStart == {Time_0105_1000, Time_month13}
TypedEnd == {Time_0105_1230, <<"l", "a", "t", "e", "r">>}
TypedMiles == {<<"1", "2", ".", "5", " ">>, <<"x">>}
TypedRevenue == {<<"1", "0", "0">>, <<"x">>}
TypedYesNo == {<<"Y">>, <<"n">>}
TypedTripExpense == {<<"3", ".", "5">>, <<"x">>}
TypedAmount == {<<"3", ".", "0", "0", "5">>, <<"x">>}
TypedDate == {Date_0312, Date_slashes}
TypedDriverName == {<<>>, <<"Bob">>}
TypedTripDriver == {<<>>}
TypedDriverType == {<<"company">>, <<"Owner">>, <<"temp">>}
TypedChoice == {<<"1">>, <<"2">>, <<"3">>, <<" ", "4">>, <<"5">>, <<"9">>}

\* files on the disk the user may name for upload, by path components
DiskFiles ==
  { [path |-> <<"scans", "r1.pdf">>, data |-> <<"A">>],
    [path |-> <<"phone", "r1.pdf">>, data |-> <<"B">>] }

TypedPath == {f.path : f \in DiskFiles} \cup {<<"scans", "gone.pdf">>}

\* os.path.basename
basename(path) == Last(path)

(***************************************************************************)
(* log_trip                                                                *)
(***************************************************************************)
NoRow == <<>>

Result(tf, ef, out, row) == [trips |-> tf, expenses |-> ef, out |-> out, row |-> row]

\* log_trip(): in holds what is typed at each prompt; intr says that a
\* prompt's input() raises (end of input); ro is the set of files that
\* cannot be opened for append.  The result is the set of outcomes the
\* number formatting allows.
log_trip(in, intr, ro, tf, ef) ==
  IF intr THEN {Result(tf, ef, "error", NoRow)}   \* except Exception (113)
  ELSE
  LET trip_id == Prompt(in.trip_id)
      driver_name == Prompt(in.driver_name)
      driver_type == Lower(Prompt(in.driver_type))
      start_dt == fromisoformat(Prompt(in.start))
      end_dt == fromisoformat(Prompt(in.end))
  IN
  IF ~start_dt.ok \/ ~end_dt.ok THEN {Result(tf, ef, "bad time", NoRow)}
  ELSE
  LET miles == ParseFloat(Prompt(in.miles)) IN
  IF ~miles.ok THEN {Result(tf, ef, "bad miles", NoRow)}
  ELSE
  LET revenue == IF driver_type = <<"owner">> THEN ParseFloat(Prompt(in.revenue))
                 ELSE [ok |-> TRUE, val |-> 0]
  IN
  IF ~revenue.ok THEN {Result(tf, ef, "bad revenue", NoRow)}
  ELSE
  LET pay == calculate_pay(driver_type, miles.val, revenue.val)
      add_expense == Lower(Prompt(in.add))
      amount == IF add_expense = <<"y">> THEN ParseFloat(Prompt(in.amount))
                ELSE [ok |-> FALSE, val |-> 0]
      logExpense == add_expense = <<"y">> /\ amount.ok
      expense_amount == IF logExpense THEN amount.val ELSE 0
      expense_desc == IF logExpense THEN Prompt(in.desc) ELSE <<>>
      out == IF add_expense = <<"y">> /\ ~amount.ok THEN "bad expense amount" ELSE "ok"
  IN
  { LET data_row == <<trip_id, driver_name, driver_type,
                      datetime_isoformat(start_dt), datetime_isoformat(end_dt),
                      d, m, p, e, expense_desc>>
        ef2 == IF logExpense
               THEN log_expense_record(ef,
                      IF driver_name = <<>> THEN <<"General">> ELSE driver_name,
                      e, expense_desc, start_dt, "expenses.csv" \notin ro)
               ELSE ef
    IN Result(write_to_csv(tf, TripsHeader, data_row, "trips.csv" \notin ro),
              ef2, out, data_row) :
    d \in Format2f(MinutesBetween(start_dt, end_dt), 60),
    m \in Format2f(miles.val, Thousand),
    p \in Format2f(pay, Thousand * Thousand),
    e \in Format2f(expense_amount, Thousand) }

(***************************************************************************)
(* log_expense                                                             *)
(***************************************************************************)
log_expense_noReturn(in, intr, ro, ef) ==
  IF intr THEN {Result(NoCsv, ef, "error", NoRow)}
  ELSE
  LET name == Prompt(in.driver_name)
      driver_name == IF name = <<>> THEN <<"General">> ELSE name
      amount == ParseFloat(Prompt(in.amount))
  IN
  IF ~amount.ok THEN {Result(NoCsv, ef, "bad amount", NoRow)}
  ELSE
  LET date == fromisoformat(Prompt(in.date)) IN
  { Result(NoCsv,
           log_expense_record(ef, driver_name, a, Prompt(in.desc), date,
                              "expenses.csv" \notin ro),
           IF date.ok THEN "ok" ELSE "bad date",
           <<date_isoformat(date), driver_name, a, Prompt(in.desc)>>) :
    a \in Format2f(amount.val, Thousand) }
log_expense(in, intr, ro, ef) ==
  IF intr THEN {Result(NoCsv, ef, "error", NoRow)}   \* except Exception (166)
  ELSE
  LET name == Prompt(in.driver_name)
      driver_name == IF name = <<>> THEN <<"General">> ELSE name
      amount == ParseFloat(Prompt(in.amount))
  IN
  IF ~amount.ok THEN {Result(NoCsv, ef, "bad amount", NoRow)}   \* except ValueError
  ELSE
  LET description == Prompt(in.desc)
      date == fromisoformat(Prompt(in.date))
  IN
  IF ~date.ok THEN {Result(NoCsv, ef, "bad date", NoRow)}
  ELSE
  { Result(NoCsv,
           log_expense_record(ef, driver_name, a, description, date,
                              "expenses.csv" \notin ro),
           "ok", <<date_isoformat(date), driver_name, a, description>>) :
    a \in Format2f(amount.val, Thousand) }

(***************************************************************************)
(* The prompted fields that fail to parse                                  *)
(***************************************************************************)
BadTripFields(in) ==
  (IF fromisoformat(Prompt(in.start)).ok THEN {} ELSE {"start time"})
  \cup (IF fromisoformat(Prompt(in.end)).ok THEN {} ELSE {"end time"})
  \cup (IF ParseFloat(Prompt(in.miles)).ok THEN {} ELSE {"miles"})
  \cup (IF Lower(Prompt(in.driver_type)) = <<"owner">>
           /\ ~ParseFloat(Prompt(in.revenue)).ok THEN {"revenue"} ELSE {})
  \cup (IF Lower(Prompt(in.add)) = <<"y">>
           /\ ~ParseFloat(Prompt(in.amount)).ok THEN {"expense amount"} ELSE {})

BadExpenseFields(in) ==
  (IF ParseFloat(Prompt(in.amount)).ok THEN {} ELSE {"amount"})
  \cup (IF fromisoformat(Prompt(in.date)).ok THEN {} ELSE {"date"})

(***************************************************************************)
(* The menu loop and its operations                                        *)
(***************************************************************************)
Op(op, choice, bad, out, row) ==
  [op |-> op, choice |-> choice, bad |-> bad, out |-> out, row |-> row]

NoOp == Op("none", <<>>, {}, "none", NoRow)

\* the operation main_menu calls for a choice, "exited" for 5, and "menu"
\* again for anything else
Dispatch(choice) ==
  CASE choice = <<"1">> -> "log_trip"
    [] choice = <<"2">> -> "log_expense"
    [] choice = <<"3">> -> "upload_receipt"
    [] choice = <<"4">> -> "export_data"
    [] choice = <<"5">> -> "exited"
    [] OTHER -> "menu"

\* main_menu, lines 253-273: print the menu, read the choice, branch on it.
\* intr: input() raises; the exception leaves main_menu and is reported by
\* the handler at lines 277-281, which ends the program
main_menu(typed, intr) ==
  /\ pc = "menu"
  /\ nOps < MaxOps
  /\ nOps' = nOps + 1
  /\ IF intr
     THEN pc' = "fatal" /\ lastOp' = Op("main_menu", <<>>, {}, "escaped", NoRow)
     ELSE LET choice == Prompt(typed) IN
          /\ pc' = Dispatch(choice)
          /\ lastOp' = Op("main_menu", choice, {}, "read", NoRow)
  /\ UNCHANGED <<trips, expenses, summary, receipts, init0>>
  /\ UNCHANGED wvars

\* choice 1
do_log_trip(in, intr, ro) ==
  /\ pc = "log_trip"
  /\ \E r \in log_trip(in, intr, ro, trips, expenses) :
       /\ trips' = r.trips
       /\ expenses' = r.expenses
       /\ lastOp' = Op("log_trip", lastOp.choice,
                       IF intr THEN {} ELSE BadTripFields(in), r.out, r.row)
  /\ pc' = "menu"
  /\ UNCHANGED <<summary, receipts, nOps, init0>>
  /\ UNCHANGED wvars

\* choice 2
do_log_expense(in, intr, ro) ==
  /\ pc = "log_expense"
  /\ \E r \in log_expense(in, intr, ro, expenses) :
       /\ expenses' = r.expenses
       /\ lastOp' = Op("log_expense", lastOp.choice,
                       IF intr THEN {} ELSE BadExpenseFields(in), r.out, r.row)
  /\ pc' = "menu"
  /\ UNCHANGED <<trips, summary, receipts, nOps, init0>>
  /\ UNCHANGED wvars

\* choice 3: upload_receipt().  The path prompt (line 174) is outside any
\* try, so an input() that raises leaves upload_receipt and main_menu.
upload_receipt(typed, intr, copyOk) ==
  /\ pc = "upload_receipt"
  /\ IF intr
     THEN /\ pc' = "fatal"
          /\ lastOp' = Op("upload_receipt", lastOp.choice, {}, "escaped", NoRow)
          /\ UNCHANGED receipts
     ELSE LET file_path == Prompt(typed)
              found == {f \in DiskFiles : f.path = file_path}
          IN /\ pc' = "menu"
             /\ IF found = {}
                THEN /\ lastOp' = Op("upload_receipt", lastOp.choice, {}, "not found", NoRow)
                     /\ UNCHANGED receipts
                ELSE IF ~copyOk
                THEN /\ lastOp' = Op("upload_receipt", lastOp.choice, {}, "copy failed", NoRow)
                     /\ UNCHANGED receipts
                ELSE /\ lastOp' = Op("upload_receipt", lastOp.choice, {}, "ok", NoRow)
                     /\ \E f \in found :
                          receipts' = {r \in receipts : r.name # basename(file_path)}
                                        \cup {[name |-> basename(file_path), data |-> f.data]}
  /\ UNCHANGED <<trips, expenses, summary, nOps, init0>>
  /\ UNCHANGED wvars

\* choice 4: export_data(); writable = FALSE is the summary file failing to
\* open, which the function catches
do_export_data(writable) ==
  /\ pc = "export_data"
  /\ IF writable
     THEN \E rows \in export_data(trips, expenses) :
            /\ summary' = [exists |-> TRUE, rows |-> rows]
            /\ lastOp' = Op("export_data", lastOp.choice, {}, "ok", NoRow)
     ELSE /\ lastOp' = Op("export_data", lastOp.choice, {}, "error", NoRow)
          /\ UNCHANGED summary
  /\ pc' = "menu"
  /\ UNCHANGED <<trips, expenses, receipts, nOps, init0>>
  /\ UNCHANGED wvars

(***************************************************************************)
(* The CSV files the logger may find when it starts                        *)
(***************************************************************************)
Iso_0104_0800 ==
  <<"2", "0", "2", "3", "-", "0", "1", "-", "0", "4", "T", "0", "8", ":", "0", "0",
    ":", "0", "0", "-", "0", "5", ":", "0", "0">>

Iso_0104_1030 ==
  <<"2", "0", "2", "3", "-", "0", "1", "-", "0", "4", "T", "1", "0", ":", "3", "0",
    ":", "0", "0", "-", "0", "5", ":", "0", "0">>

TripRow(miles, pay) ==
  << <<"T", "0">>, <<"Ann">>, <<"company">>, Iso_0104_0800, Iso_0104_1030,
     <<"2", ".", "5", "0">>, miles, pay, <<"0", ".", "0", "0">>, <<>> >>

TripRowGood == TripRow(<<"1", "0", ".", "0", "0">>, <<"5", ".", "0", "0">>)

TripRowBadPay == TripRow(<<"1", "0", ".", "0", "0">>, <<"n", "/", "a">>)

TripRowBadMiles == TripRow(<<"n", "/", "a">>, <<"5", ".", "0", "0">>)

ExpenseRow(amount) ==
  << <<"2", "0", "2", "3", "-", "0", "1", "-", "0", "4">>, <<"Ann">>, amount, <<"toll">> >>

InitialTrips ==
  { NoCsv,                                              \* absent
    Csv(<<>>, FALSE),                                   \* present, empty
    Csv(<<TripsHeader, TripRowGood>>, FALSE),           \* as the logger writes it
    Csv(<<TripsHeader, TripRowBadPay>>, FALSE),         \* edited by hand
    Csv(<<TripsHeader, TripRowBadMiles, TripRowGood>>, FALSE),
    Csv(<<TripRowGood>>, FALSE),                        \* header missing
    Csv(<<TripsHeader, TripRowGood>>, TRUE) }           \* last line unterminated

InitialExpenses ==
  { NoCsv,
    Csv(<<>>, FALSE),
    Csv(<<ExpensesHeader, ExpenseRow(<<"7", ".", "2", "5">>)>>, FALSE),
    Csv(<<ExpensesHeader, ExpenseRow(<<"?">>), ExpenseRow(<<"1", ".", "0", "0">>)>>, FALSE) }

\* the watcher is not part of the logger's runs
WatcherIdle ==
  /\ variant = "none"
  /\ target = NoFile
  /\ inbox = {}
  /\ backups = {}
  /\ archived = {}
  /\ clock = 0
  /\ sleeps = 0
  /\ phase = "off"
  /\ pending = {}
  /\ nextId = 1
  /\ processed = <<>>
  /\ writes = 0
  /\ last = NoStep

InitLog ==
  /\ WatcherIdle
  /\ pc = "menu"
  /\ \/ trips \in InitialTrips /\ expenses = NoCsv
     \/ trips = NoCsv /\ expenses \in InitialExpenses
  /\ summary = [exists |-> FALSE, rows |-> <<>>]
  /\ receipts = {}
  /\ nOps = 0
  /\ init0 = [trips |-> trips, expenses |-> expenses]
  /\ lastOp = NoOp

\* a prompt that is never reached gets no text
NotAsked == <<>>

\* log_trip asks for the miles only after both times parsed, for the revenue
\* only of an owner, for the expense amount only after "y"
TripPromptsReached(in) ==
  LET timesOk == fromisoformat(Prompt(in.start)).ok /\ fromisoformat(Prompt(in.end)).ok
      milesOk == timesOk /\ ParseFloat(Prompt(in.miles)).ok
      revAsked == milesOk /\ Lower(Prompt(in.driver_type)) = <<"owner">>
      addAsked == milesOk /\ (revAsked => ParseFloat(Prompt(in.revenue)).ok)
      amountAsked == addAsked /\ Lower(Prompt(in.add)) = <<"y">>
  IN /\ (in.miles = NotAsked) <=> ~timesOk
     /\ (in.revenue = NotAsked) <=> ~revAsked
     /\ (in.add = NotAsked) <=> ~addAsked
     /\ (in.amount = NotAsked) <=> ~amountAsked

TripInputs ==
  { in \in [trip_id : {<<"T", "1">>}, driver_name : TypedTripDriver,
            driver_type : TypedDriverType, start : TypedStart, end : TypedEnd,
            miles : TypedMiles \cup {NotAsked},
            revenue : TypedRevenue \cup {NotAsked},
            add : TypedYesNo \cup {NotAsked},
            amount : TypedTripExpense \cup {NotAsked}, desc : {<<"fuel">>}] :
    TripPromptsReached(in) }

\* log_expense asks for the date only after the amount parsed
ExpenseInputs ==
  { in \in [driver_name : TypedDriverName, amount : TypedAmount,
            desc : {<<"toll">>}, date : TypedDate \cup {NotAsked}] :
    (in.date = NotAsked) <=> ~ParseFloat(Prompt(in.amount)).ok }

\* the files that cannot be opened for append during one operation
Unwritable == {{}, {"trips.csv"}, {"expenses.csv"}}

NextLog ==
  \/ \E typed \in TypedChoice, intr \in BOOLEAN : main_menu(typed, intr)
  \/ \E in \in TripInputs, intr \in BOOLEAN, ro \in Unwritable :
       do_log_trip(in, intr, ro)
  \/ \E in \in ExpenseInputs, intr \in BOOLEAN, ro \in Unwritable :
       do_log_expense(in, intr, ro)
  \/ \E typed \in TypedPath, intr \in BOOLEAN, copyOk \in BOOLEAN :
       upload_receipt(typed, intr, copyOk)
  \/ \E writable \in BOOLEAN : do_export_data(writable)

SpecLog == InitLog /\ [][NextLog]_vars

(***************************************************************************)
(* Claims about the update watcher                                         *)
(***************************************************************************)
\* the loop-body steps that ran to their end on a candidate
Finished == {"A_updated", "A_nochange", "B_updated", "B_archived"}

\* the backup file the step at the current clock writes for the current target
BackupOfTarget == [ts |-> Timestamp(clock), data |-> target.data]

\* C1: in both variants, a step that writes or replaces an existing target
\* leaves a backup file holding the target's content from before the step
C1_BackupBeforeOverwrite ==
  [][(writes' # writes /\ target.exists) => BackupOfTarget \in backups']_vars

\* C1 witness: Variant A has replaced a target by different content and the
\* old content is in the backup folder
C1_Witness ==
  /\ last.op = "A_updated"
  /\ last.old.exists
  /\ last.old.data # target.data
  /\ \E b \in backups : b.data = last.old.data

\* C2 (as claimed): Variant A, candidate found while the target is absent:
\* no crash, the target holds the candidate's text, the candidate is deleted
C2_FreshInstall ==
  (variant = "A" /\ last.op \in {"A_updated", "A_nochange", "A_raised"}
     /\ ~last.old.exists)
  => /\ phase # "crashed"
     /\ target = File(ReadText(last.cand))
     /\ Lookup(inbox, last.name) = {}

\* a Variant A step that handled a zero-byte candidate while the target exists
ZeroByteStepA ==
  /\ variant = "A"
  /\ target.exists
  /\ last'.op \in {"A_updated", "A_nochange", "A_raised"}
  /\ last'.cand = <<>>

C4_ProcessedOnce ==
  /\ \A i \in DOMAIN processed : processed[i] <= 1
  /\ last.op \in Finished => Lookup(inbox, last.name) = {}

\* C4 witness: two drops were each processed once, the second in a later
\* poll cycle of Variant B
C4_Witness ==
  /\ last.op = "B_archived"
  /\ sleeps >= 1
  /\ processed[1] = 1
  /\ processed[2] = 1

\* C10 (as claimed): a backup file, once created, keeps its content forever
C10_BackupsKeepContent ==
  [][\A b \in backups : b \in backups']_vars

(***************************************************************************)
(* Claims about the trip/expense logger                                    *)
(***************************************************************************)
HeaderCount(file, header) ==
  Cardinality({i \in 1..Len(file.rows) : file.rows[i] = header})

HeaderOnceFirst(file, header) ==
  /\ file.rows # <<>>
  /\ file.rows[1] = header
  /\ HeaderCount(file, header) = 1

\* the file is absent, or begins with the header (once) and ends with a
\* terminated line
StartsClean(file, header) ==
  ~file.exists \/ (HeaderOnceFirst(file, header) /\ ~file.open)

\* C5 (as claimed): from any initial state of the file, once appended to, the
\* file holds the header exactly once, as its first row
C5_HeaderOnce ==
  /\ trips # init0.trips => HeaderOnceFirst(trips, TripsHeader)
  /\ expenses # init0.expenses => HeaderOnceFirst(expenses, ExpensesHeader)

\* C5 (amended): from a file that is absent or starts clean, the file holds
\* the header exactly once, as its first row; from any file, a step adds a
\* header only when it found the file absent
C5_HeaderOnceAmended ==
  [][/\ (StartsClean(init0.trips, TripsHeader) /\ trips'.exists)
          => HeaderOnceFirst(trips', TripsHeader)
     /\ (StartsClean(init0.expenses, ExpensesHeader) /\ expenses'.exists)
          => HeaderOnceFirst(expenses', ExpensesHeader)
     /\ HeaderCount(trips', TripsHeader) > HeaderCount(trips, TripsHeader)
          => ~trips.exists
     /\ HeaderCount(expenses', ExpensesHeader) > HeaderCount(expenses, ExpensesHeader)
          => ~expenses.exists]_vars

\* C5 witness: trips.csv was absent, two trips were appended, and the file
\* is the header followed by the two data rows
C5_Witness ==
  /\ init0.trips = NoCsv
  /\ Len(trips.rows) = 3
  /\ HeaderOnceFirst(trips, TripsHeader)

\* the totals the claim describes: a trips row counts only if both its
\* Miles and its Pay parse
RECURSIVE SumWholeRows(_, _, _)
SumWholeRows(fieldnames, rows, acc) ==
  IF rows = <<>> THEN acc
  ELSE LET m == FloatOfColumn(fieldnames, Head(rows), <<"Miles">>)
           p == FloatOfColumn(fieldnames, Head(rows), <<"Pay">>)
       IN SumWholeRows(fieldnames, Tail(rows),
            IF m.ok /\ p.ok
            THEN [miles |-> acc.miles + m.val, pay |-> acc.pay + p.val]
            ELSE acc)

WholeRowTotals(file) ==
  IF file.exists /\ file.rows # <<>>
  THEN SumWholeRows(Head(file.rows), DictRows(file), [miles |-> 0, pay |-> 0])
  ELSE [miles |-> 0, pay |-> 0]

\* C6 (as claimed): the summary export_data writes holds the sums over the
\* rows all of whose numeric fields parse; a row with an unparseable Miles
\* or Pay adds to neither total
C6_WholeRowsExcluded ==
  (lastOp.op = "export_data" /\ lastOp.out = "ok")
  => /\ summary.exists
     /\ summary.rows \in SummaryRows(WholeRowTotals(trips).miles,
                                     WholeRowTotals(trips).pay,
                                     ExpenseTotal(expenses))

\* the record log_trip appended in this step adds its Miles and its Pay
\* to the totals export_data computes, once
ContributesOnce ==
  LET row == lastOp'.row
      m == ParseFloat(row[7])
      p == ParseFloat(row[8])
  IN /\ m.ok /\ p.ok
     /\ TripTotals(trips').miles = TripTotals(trips).miles + m.val
     /\ TripTotals(trips').pay = TripTotals(trips).pay + p.val

\* C7 (as claimed): whatever trips.csv held before, a record log_trip
\* appends contributes its Miles and Pay to the export totals exactly once
C7_RoundTrip ==
  [][(pc = "log_trip" /\ trips' # trips) => ContributesOnce]_vars

\* C7 (amended): the same, for a trips.csv that was absent or began with
\* the header row and ended with a terminated line
C7_RoundTripAmended ==
  [][(pc = "log_trip" /\ trips' # trips
        /\ (~trips.exists
              \/ (trips.rows # <<>> /\ trips.rows[1] = TripsHeader /\ ~trips.open)))
     => ContributesOnce]_vars

\* C7 witness: a trip was appended after earlier rows, one of them
\* unparseable, and the totals hold more than this trip's miles
C7_Witness ==
  /\ lastOp.op = "log_trip" /\ lastOp.out = "ok"
  /\ Len(trips.rows) = 4
  /\ trips.rows[1] = TripsHeader
  /\ trips.rows[4] = lastOp.row
  /\ TripTotals(trips).miles > ParseFloat(lastOp.row[7]).val

LogOps == {"log_trip", "log_expense"}

\* the fields whose parse failure ends the operation
AbortFields == {"start time", "end time", "miles", "revenue", "amount", "date"}

\* C8 (as claimed): a prompted field that fails to parse, the expense amount
\* of a trip included, aborts the operation with no row appended anywhere
C8_MalformedAborts ==
  [][(pc \in LogOps /\ lastOp'.bad # {})
     => /\ trips' = trips
        /\ expenses' = expenses
        /\ pc' = "menu"]_vars

\* C8 (amended): an unparseable time, miles, revenue, amount or date aborts
\* with nothing written; an unparseable expense amount inside log_trip only
\* drops the expense: expenses.csv is unchanged and the trip row goes to
\* write_to_csv with ExpenseAmount 0.00 and an empty description
C8_MalformedAbortsAmended ==
  [][/\ (pc \in LogOps /\ lastOp'.bad \cap AbortFields # {})
          => /\ trips' = trips
             /\ expenses' = expenses
             /\ pc' = "menu"
     /\ (pc = "log_trip" /\ lastOp'.bad = {"expense amount"})
          => /\ expenses' = expenses
             /\ pc' = "menu"
             /\ lastOp'.row # NoRow
             /\ lastOp'.row[9] = <<"0", ".", "0", "0">>
             /\ lastOp'.row[10] = <<>>
             /\ trips' \in {write_to_csv(trips, TripsHeader, lastOp'.row, w) :
                             w \in BOOLEAN}]_vars

\* C8 witness: log_trip met an unparseable expense amount and appended the
\* trip row, with expenses.csv as it was found
C8_Witness ==
  /\ lastOp.op = "log_trip"
  /\ lastOp.bad = {"expense amount"}
  /\ trips.rows # <<>>
  /\ Last(trips.rows) = lastOp.row
  /\ expenses = init0.expenses

MenuOps == {"log_trip", "log_expense", "upload_receipt", "export_data"}

\* C9 (as claimed): every operation returns control to the menu, and after a
\* choice has been read the loop ends exactly when the choice is 5
C9_OnlyExitTerminates ==
  [][/\ pc \in MenuOps => pc' = "menu"
     /\ (pc = "menu" /\ lastOp'.out = "read")
          => /\ pc' \in MenuOps \cup {"menu", "exited"}
             /\ (pc' = "exited") <=> (lastOp'.choice = <<"5">>)]_vars

====
